---- MODULE Spec2Model ----
(***************************************************************************)
(* Model of the frame admission queue of apps/api/queue_manager.py         *)
(* (class QueueManager and the QueuedFrame objects it stores).             *)
(*                                                                         *)
(* Time.  time.time() is a float number of seconds.  The model counts time *)
(* in integer ticks, TicksPerMs ticks to the millisecond, so that the      *)
(* truncation int(current_time * 1000) of add_frame is a real truncation.  *)
(* The clock never runs backwards.  The arithmetic of the drop rule is     *)
(* done exactly, on fractions, instead of on floats.                       *)
(*                                                                         *)
(* Objects.  A QueuedFrame is a mutable object; the deque holds references.*)
(* frames is the heap (object id -> fields) and queue is the sequence of   *)
(* object ids in the deque, left to right.  The heap keeps the objects the *)
(* deque refers to; an id the deque does not refer to stands for a frame   *)
(* the caller has yet to build.  The payload fields image_base64, prompt   *)
(* and prompt_type are never read by QueueManager and are left out.        *)
(*                                                                         *)
(* Lock.  Every async method of the QueueManager runs under                *)
(* async with self._lock, and none of the bodies has an await: a call takes*)
(* the free lock, runs and releases it without giving up the event loop,   *)
(* so each method is one step.  lock is the state of the lock between      *)
(* steps; a step that would find it held has to wait.                      *)
(*                                                                         *)
(* Worker.  The second part models the analysis worker of                  *)
(* apps/api/ai_processor.py (AIProcessor.worker, start_worker,             *)
(* process_frame_with_llava, queue_frame_for_analysis) with the startup    *)
(* and shutdown handlers and the analyze_frame_polling handler of          *)
(* apps/api/main.py.  The worker is one asyncio task; wpc is the await it  *)
(* is suspended at.  Redis and the Ollama endpoint are the environment:    *)
(* each await on them returns or raises.  Cancellation follows asyncio     *)
(* (Python 3.8 and later): task.cancel() makes the await the task is       *)
(* suspended at raise CancelledError, which except Exception does not      *)
(* catch.  Frame payloads, websocket ids and processing times are left     *)
(* out.  Confidences are counted in hundredths, motion strengths in        *)
(* percent.  Nothing in the program calls a method of the QueueManager, so *)
(* the worker specification leaves the module-level queue_manager as built.*)
(*                                                                         *)
(* Event streams.  The third part models SSEConnectionManager of           *)
(* apps/api/sse_manager.py: the registry _connections, the asyncio.Queue   *)
(* of each client (maxsize 0 is a queue without bound, as in asyncio) and  *)
(* the event_generator of each connection, one loop iteration to the step. *)
(* The tests of the repository register queues of their own, some of them  *)
(* bounded; the model admits those registrations too (SpecSSE), while      *)
(* SpecStream is the manager as server.py drives it, through connect and   *)
(* broadcast alone.  The history of a stream keeps, of its heartbeats, the *)
(* run at its end as one entry.                                            *)
(*                                                                         *)
(* main.py.  The fourth part models the stores of apps/api/main.py: the    *)
(* dict sse_connections with send_to_sse_connections and                   *)
(* ai_analysis_stream, and the list dummy_motion_events with               *)
(* create_motion_event, a def endpoint that the framework runs on the      *)
(* threads of a pool: its read of len() and its append are two steps.      *)
(* SpecPolling is the store polling_results of the same file: the entry    *)
(* analyze_frame_polling stores, the process_later task that completes it  *)
(* after its sleep, and poll_analysis_results, which has no await and is   *)
(* one step.  Frame ids and results are numbered; a result has the number  *)
(* of the request it belongs to.                                           *)
(*                                                                         *)
(* Status.  get_queue_status is a plain method that reads the fields of    *)
(* the QueueManager without the lock; SpecStatus runs it between the       *)
(* steps of the queue.  Nothing calls record_processing_time, so the       *)
(* average processing time it reports is 0.                                *)
(*                                                                         *)
(* server.py.  SpecServer is the /analyze endpoint of apps/api/server.py   *)
(* on the SSEConnectionManager: the Gemini call is the environment and     *)
(* succeeds, fails, runs out of quota or raises.  SpecDelivery adds        *)
(* send_to_client to the manager as server.py drives it.  A stream whose   *)
(* HTTP response is dropped before the generator was started never runs    *)
(* its finally block.                                                      *)
(*                                                                         *)
(* graph.py.  SpecGraph runs concurrent analyze_with_graph calls on the    *)
(* one LoadBalancer of apps/api/graph.py.  The compiled graph awaits       *)
(* between its nodes, so load_balancer_node and llava_node of one request  *)
(* are separate steps, and llava_node is suspended in its HTTP call        *)
(* between the increment and the finally block.                            *)
(*                                                                         *)
(* State.  The fields of the QueueManager are variables of their own; the  *)
(* state of each other part is one record (ai_processor, sse_manager,      *)
(* main, load_balancer) whose fields are named below.  A specification of  *)
(* one part leaves the parts it does not run at NotRunning.                *)
(***************************************************************************)
EXTENDS Integers, Sequences, FiniteSets, TLC

\* ---------------------------------------------------------------- bounds
MaxMaxSize == 3        \* largest max_size a QueueManager is built with
MaxDropThreshold == 2  \* largest drop_threshold a QueueManager is built with
TicksPerMs == 2        \* clock resolution of the model: ticks per ms
MaxSubTicks == 1       \* ticks past the construction time the clock can show
MaxHalfSeconds == 4    \* half seconds the clock runs after construction
MaxAgeHalfSeconds == 1 \* largest max_age_seconds argument, in half seconds
MaxJobs == 2           \* frames queue_frame_for_analysis is called with
NumStrengths == 2      \* motion strengths: 0..100 % cut in this many steps
MaxRequests == 1       \* requests analyze_frame_polling is called for
MaxClients == 2        \* client ids the SSE registry sees
MaxEvents == 2         \* events broadcast or sent to one client
MaxOutbox == 1         \* largest maxsize of a queue registered directly
MaxSubscribers == 1    \* clients that come through connect and get a stream
MaxStreams == 2        \* connections ai_analysis_stream is called for
MaxResults == 2        \* results send_to_sse_connections is called with
MaxThreads == 3        \* create_motion_event requests, one thread each
MaxConcurrent == 2     \* largest max_concurrent a LoadBalancer is configured with
MaxGraphRequests == 3  \* analyze_with_graph requests
MaxPollFrames == 2     \* frame ids the polling clients use
MaxSubmissions == 2    \* analyze_frame_polling requests on the polling store
MaxPollIds == 2        \* longest frame_ids list of a poll-results request

\* ------------------------------------------------------------- constants
\* self.min_frame_interval = 0.5 seconds, in ticks
min_frame_interval == 500 * TicksPerMs

\* time.time() when the QueueManager is constructed: far from the initial
\* last_frame_time = 0, farther than the longest interval the drop rule asks
Epoch == 5 * min_frame_interval

\* one object more than any deque holds: the caller can always build a new one
FrameIds == 1..(MaxMaxSize + 1)
None == 0

\* the values time.time() takes in the model
TimePoints ==
    { Epoch + s : s \in 0..MaxSubTicks } \cup
    { Epoch + h * min_frame_interval : h \in 1..MaxHalfSeconds }

\* the max_age_seconds arguments
MaxAges == { k * min_frame_interval : k \in 0..MaxAgeHalfSeconds }

VARIABLES
    max_size,           \* self.queue.maxlen
    drop_threshold,     \* self.drop_threshold
    queue,              \* self.queue: object ids, leftmost first
    frames,             \* heap: object id -> QueuedFrame fields
    last_frame_time,    \* self.last_frame_time
    processing_active,  \* self.processing_active
    lock,               \* self._lock.locked()
    now,                \* the value time.time() returns
    op,                 \* history: the last step
    arg,                \* history: the argument of the last call
    ok,                 \* history: what the last add_frame returned
    ret,                \* history: what the last get_frame returned
    removed,            \* history: entries the last call took out of the deque
    status,             \* history: what the last get_queue_status returned
    burst_n,            \* history: add_frame calls of the overload burst so far
    burst_acc,          \* history: those of them that returned True
    phase               \* history: progress of the overload-then-drain scenario

VARIABLES
    ai_processor        \* the AIProcessor, its worker task, Redis and its history

\* the Redis list motion_frames_queue, leftmost first
processing_queue == ai_processor.processing_queue
\* the await the worker task is suspended at
wpc == ai_processor.wpc
\* job_data of the iteration under way
job == ai_processor.job
\* what process_frame_with_llava returned to the worker
result == ai_processor.result
\* messages delivered on ai_analysis_results, in order
published == ai_processor.published
\* process_frame_with_llava calls in flight, by caller
calls == ai_processor.calls
\* task.cancel() called, CancelledError yet to be raised
cancel_pending == ai_processor.cancel_pending
\* progress of shutdown_event
shutdown == ai_processor.shutdown
\* history: calls of queue_frame_for_analysis so far
submitted == ai_processor.submitted
\* history: analyze_frame_polling requests so far
requests == ai_processor.requests
\* history: frame ids brpop handed to the worker, in order
dequeued == ai_processor.dequeued
\* history: the await that raised CancelledError
cancelled_at == ai_processor.cancelled_at

VARIABLES
    sse_manager,        \* the SSEConnectionManager, its clients and its history
    main                \* the stores of main.py, their requests and history

\* self._connections: the keys
connections == sse_manager.connections
\* client id -> its asyncio.Queue: maxsize and items
outbox == sse_manager.outbox
\* client id -> where its event_generator is
stream == sse_manager.stream
\* client id -> request.is_disconnected()
gone == sse_manager.gone
\* history: client id -> the events its generator yielded
delivered == sse_manager.delivered
\* history: events broadcast or sent so far
sent == sse_manager.sent
\* history: the last step, the client or event of the call, what it returned
sse_op == sse_manager.sse_op
sse_arg == sse_manager.sse_arg
sse_ret == sse_manager.sse_ret

\* the keys of sse_connections, in dict order
sse_connections == main.sse_connections
\* connection id -> its asyncio.Queue
connection_queue == main.connection_queue
\* connection id -> where its event_generator is
generator == main.generator
\* the send_to_sse_connections call under way
sender == main.sender
\* the dict changed size under an iteration
dict_changed == main.dict_changed
\* history: calls of send_to_sse_connections so far
results == main.results
\* the ids of the stored events, in list order
dummy_motion_events == main.dummy_motion_events
\* request -> where create_motion_event is
thread == main.thread
\* polling_results: frame id -> the stored entry
polling_results == main.polling_results
\* the process_later tasks, one for each request that stored an entry
later == main.later
\* history: analyze_frame_polling requests on the store so far
submissions == main.submissions
\* history: what the last poll_analysis_results call was asked and returned
poll == main.poll
\* history: analysis -> the poll responses that carried it so far
poll_returned == main.poll_returned

VARIABLES
    load_balancer       \* the LoadBalancer of graph.py and the requests on its graph

\* self.config.max_concurrent
max_concurrent == load_balancer.max_concurrent
\* self._processing_count
processing_count == load_balancer.processing_count
\* request -> the node of the graph its run has reached
graph_run == load_balancer.graph_run

queueVars == <<max_size, drop_threshold, queue, frames, last_frame_time, processing_active,
               lock, now, op, arg, ok, ret, removed, status, burst_n, burst_acc,
               phase>>

workerVars == <<ai_processor>>

sseVars == <<sse_manager>>

mainVars == <<main>>

graphVars == <<load_balancer>>

vars == <<queueVars, workerVars, sseVars, mainVars, graphVars>>

\* a specification of one part leaves the other parts out: their variables
\* hold this value throughout
NotRunning == <<>>

\* what a step of one part leaves alone
notQueue == <<workerVars, sseVars, mainVars, graphVars>>
notWorker == <<queueVars, sseVars, mainVars, graphVars>>
notSSE == <<queueVars, workerVars, mainVars, graphVars>>
notMain == <<queueVars, workerVars, sseVars, graphVars>>
notGraph == <<queueVars, workerVars, sseVars, mainVars>>

\* ------------------------------------------------------------- helpers
Min(a, b) == IF a <= b THEN a ELSE b

Pending(q) == { q[i] : i \in 1..Len(q) }

\* class QueuedFrame: timestamp is the caller's, priority defaults to 0.
\* admitted is history: current_time of the add_frame call that accepted it last
QueuedFrame(timestamp) == [timestamp |-> timestamp, priority |-> 0, admitted |-> 0]

Blank == QueuedFrame(0)

\* the heap restricted to the objects the deque refers to
Referenced(heap, q) ==
    LET pending == Pending(q)
    IN  [f \in FrameIds |-> IF f \in pending THEN heap[f] ELSE Blank]

\* the id a newly built frame gets
NewId(q) == CHOOSE f \in FrameIds \ Pending(q) : \A g \in FrameIds \ Pending(q) : f <= g

\* int(current_time * 1000)
priority_of(current_time) == current_time \div TicksPerMs

\* deque.append that never drops an item
unbounded_append(q, x, maxlen) == Append(q, x)

\* deque.append on a deque(maxlen=maxlen): a full deque drops its leftmost item
deque_append(q, x, maxlen) ==
    IF Len(q) >= maxlen THEN Append(Tail(q), x) ELSE Append(q, x)

\* q without its i-th item
RemoveAt(q, i) == [j \in 1..(Len(q) - 1) |-> IF j < i THEN q[j] ELSE q[j + 1]]

\* the drop rate with the operands of the subtraction swapped
swapped_drop_rate(queue_size, threshold) == <<threshold - queue_size, threshold>>

\* min(0.8, (queue_size - drop_threshold) / drop_threshold) as a fraction <<num, den>>
drop_rate(queue_size, threshold) ==
    IF 5 * (queue_size - threshold) >= 4 * threshold
    THEN <<4, 5>>
    ELSE <<queue_size - threshold, threshold>>

\* time_since_last < self.min_frame_interval * (1 + drop_rate * 4)
too_soon(time_since_last, rate) ==
    time_since_last * rate[2] < min_frame_interval * (rate[2] + 4 * rate[1])

\* add_frame without its first early return
rejects_by_time_only(active, queue_size, threshold, time_since_last) ==
    /\ queue_size >= threshold
    /\ too_soon(time_since_last, drop_rate(queue_size, threshold))

\* add_frame comparing the queue size to the threshold with > instead of >=
rejects_above_threshold(active, queue_size, threshold, time_since_last) ==
    \/ active /\ queue_size > threshold
    \/ /\ queue_size > threshold
       /\ too_soon(time_since_last, drop_rate(queue_size, threshold))

\* the two early returns of add_frame: does the call return False?
rejects(active, queue_size, threshold, time_since_last) ==
    \/ active /\ queue_size >= threshold
    \/ /\ queue_size >= threshold
       /\ too_soon(time_since_last, drop_rate(queue_size, threshold))

\* sorted(...)[0] without reverse=True: the leftmost item of lowest priority
oldest_index(q, heap) ==
    CHOOSE i \in 1..Len(q) :
        /\ \A j \in 1..Len(q) : heap[q[j]].priority >= heap[q[i]].priority
        /\ \A j \in 1..(i - 1) : heap[q[j]].priority > heap[q[i]].priority

\* sorted(self.queue, key=priority, reverse=True)[0]: the sort is stable, so
\* this is the leftmost item among those of highest priority
newest_index(q, heap) ==
    CHOOSE i \in 1..Len(q) :
        /\ \A j \in 1..Len(q) : heap[q[j]].priority <= heap[q[i]].priority
        /\ \A j \in 1..(i - 1) : heap[q[j]].priority < heap[q[i]].priority

\* frame == other on pydantic models: the same object, or equal field values
frame_eq(heap, f, g) ==
    \/ f = g
    \/ /\ heap[f].timestamp = heap[g].timestamp
       /\ heap[f].priority = heap[g].priority

\* get_frame without its self.queue.remove(frame)
no_remove(q, heap, frame) == q

\* deque.remove(frame): drops the leftmost item that compares equal to frame
deque_remove(q, heap, frame) ==
    RemoveAt(q, CHOOSE i \in 1..Len(q) :
                    /\ frame_eq(heap, q[i], frame)
                    /\ \A j \in 1..(i - 1) : ~frame_eq(heap, q[j], frame))

strictly_younger(q, heap, current_time, max_age) ==
    SelectSeq(q, LAMBDA f : current_time - heap[f].timestamp < max_age)

\* the list comprehension of clear_old_frames
not_too_old(q, heap, current_time, max_age) ==
    SelectSeq(q, LAMBDA f : current_time - heap[f].timestamp <= max_age)

stamped_always(accepted, current_time, previous) == current_time

\* self.last_frame_time = current_time, which only an accepted frame reaches
last_time_after(accepted, current_time, previous) ==
    IF accepted THEN current_time ELSE previous

kept_on_exit == TRUE

\* __aexit__ of async with self._lock: the lock is released when the body ends
released_on_exit == FALSE

\* async with self._lock around a body without an await.  Lock.acquire() on
\* a free lock takes it without suspending the caller; on a held lock the
\* caller waits until it is released
with_lock ==
    /\ ~lock
    /\ lock' = released_on_exit

\* self.queue.append(frame) on a deque neither waits nor raises, full or not
append_proceeds(q, maxlen) == TRUE

\* ------------------------------------------------------------- history
NoFrame == [id |-> None, frame |-> Blank]

\* no get_queue_status call was the last step
NoStatus == [queue_size |-> -1, drop_threshold |-> -1, is_dropping |-> FALSE,
             drop_rate |-> <<0, 1>>, avg_processing_time |-> 0]

\* the last step: its name, its argument, what it returned, and how many
\* entries it took out of the deque, after being the deque it leaves
Record(name, a, accepted, returned, after) ==
    /\ op' = name
    /\ arg' = a
    /\ ok' = accepted
    /\ ret' = returned
    /\ status' = NoStatus
    /\ removed' = Len(queue) + (IF accepted THEN 1 ELSE 0) - Len(after)

\* the overload scenario starts over whenever a call other than add_frame
\* leaves the queue empty with the worker busy
BurstStart(q, active) ==
    /\ phase' = IF q = <<>> /\ active THEN "burst" ELSE "none"
    /\ burst_n' = 0
    /\ burst_acc' = 0

\* ------------------------------------------------------------- worker data
\* the motion_strength values a frame is queued with, in percent
Strengths == { (100 * k) \div NumStrengths : k \in 0..NumStrengths }

\* len(description) > 30 of process_frame_with_llava
description_threshold == 30

\* lengths of the stripped "response" text of a 200 reply
ResponseLengths == {0, description_threshold, description_threshold + 1}

\* what the POST to /api/generate does: a 200 reply with a text of some length,
\* another status, httpx.TimeoutException, or any other exception
Replies ==
    { [kind |-> "200", length |-> n] : n \in ResponseLengths } \cup
    { [kind |-> k, length |-> 0] : k \in {"status", "timeout", "exception"} }

\* no motion strength in a description
NoStrength == -1

whole_percent(s) == s

\* f"{motion_strength:.1f}": the strength to one decimal, in tenths of a percent
format_strength(s) == 10 * s

\* a description: either the model's text (of some length) or one of the
\* f-strings of process_frame_with_llava, which carry the formatted strength
Description(text, length, strength) ==
    [text |-> text, length |-> length, strength |-> strength]

NoJob == [frame_id |-> None, motion_strength |-> 0]
NoResult == [success |-> FALSE, description |-> Description("", 0, NoStrength),
             confidence |-> 0, error |-> ""]

\* the awaits of start_worker and worker, and the end of the task
Locations == {"connect", "brpop", "analyze", "publish", "sleep", "disconnect", "done"}

WorkerInit ==
    ai_processor = [processing_queue |-> <<>>,
                    wpc |-> "connect",
                    job |-> NoJob,
                    result |-> NoResult,
                    published |-> <<>>,
                    calls |-> [worker |-> 0, handler |-> 0],
                    cancel_pending |-> FALSE,
                    shutdown |-> "running",
                    submitted |-> 0,
                    requests |-> 0,
                    dequeued |-> <<>>,
                    cancelled_at |-> "none"]

\* ------------------------------------------------------------- event stream data
\* the client ids the registry sees: uuid4 strings of connect, names of tests
ClientIds == 1..MaxClients

\* asyncio.Queue(maxsize): maxsize 0 is a queue without bound
Queue(maxsize) == [maxsize |-> maxsize, items |-> <<>>]

\* no queue was built for the id yet
NoQueue == [maxsize |-> -1, items |-> <<>>]

never_full(q) == FALSE

\* asyncio.Queue.full(): put_nowait raises QueueFull when it holds
full(q) == q.maxsize > 0 /\ Len(q.items) >= q.maxsize

put_dropped(q, event) == q

put_first(q, event) == [q EXCEPT !.items = <<event>> \o @]

\* asyncio.Queue.put_nowait on a queue with room
put_nowait(q, event) == [q EXCEPT !.items = Append(@, event)]

\* {"event": event_type, "data": json.dumps(data)}
Event(event_type, data) == [event |-> event_type, data |-> data]

Connected(client_id) == Event("connected", client_id)
Heartbeat == Event("heartbeat", 0)

SSEInit ==
    sse_manager = [connections |-> {},
                   outbox |-> [c \in ClientIds |-> NoQueue],
                   stream |-> [c \in ClientIds |-> "none"],
                   gone |-> [c \in ClientIds |-> FALSE],
                   delivered |-> [c \in ClientIds |-> <<>>],
                   sent |-> 0,
                   sse_op |-> "init",
                   sse_arg |-> 0,
                   sse_ret |-> "None"]

\* ------------------------------------------------------------- main.py data
ConnectionIds == 1..MaxStreams
ThreadIds == 1..MaxThreads

\* no send_to_sse_connections call is under way
Idle == [active |-> FALSE, remaining |-> <<>>, size |-> 0, event |-> 0]

\* the ids of the three entries the list is built with
InitialEvents == <<1, 2, 3>>

\* the frame_id strings of the polling clients
PollFrames == 1..MaxPollFrames

\* the analyze_frame_polling requests, which number the analysis_data dicts
Submissions == 1..MaxSubmissions

\* frame_id not in polling_results
NoEntry == [status |-> "absent", analysis |-> 0]

\* {"status": "processing", ...}
Processing == [status |-> "processing", analysis |-> 0]

\* {"status": "completed", "analysis": analysis_data, ...}
Completed(analysis) == [status |-> "completed", analysis |-> analysis]

\* the last step was no poll_analysis_results call
NoPoll == [called |-> FALSE, frame_ids |-> <<>>,
           completed |-> <<>>, failed |-> <<>>, pending |-> <<>>]

\* the frame_ids lists of the requests: any ids, in any order, repeated or not
RECURSIVE Lists(_)
Lists(n) ==
    IF n = 0 THEN {<<>>}
    ELSE Lists(n - 1) \cup { Append(l, f) : l \in Lists(n - 1), f \in PollFrames }

MainInit ==
    main = [polling_results |-> [f \in PollFrames |-> NoEntry],
            later |-> [n \in Submissions |-> [pc |-> "none", frame_id |-> 0]],
            submissions |-> 0,
            poll |-> NoPoll,
            poll_returned |-> [n \in Submissions |-> 0],
            sse_connections |-> <<>>,
            connection_queue |-> [c \in ConnectionIds |-> NoQueue],
            generator |-> [c \in ConnectionIds |-> "none"],
            sender |-> Idle,
            dict_changed |-> FALSE,
            results |-> 0,
            dummy_motion_events |-> InitialEvents,
            thread |-> [r \in ThreadIds |-> [pc |-> "idle", id |-> 0]]]

\* ------------------------------------------------------------- graph.py data
\* the calls of analyze_with_graph
GraphRequests == 1..MaxGraphRequests

\* LoadBalancer(config), no run of the graph under way
LoadBalancer(config) ==
    [max_concurrent |-> config,
     processing_count |-> 0,
     graph_run |-> [r \in GraphRequests |-> "none"]]

\* ------------------------------------------------------------- Init
\* QueueManager.__init__, for the sizes max_size >= drop_threshold >= 1
\* (the code builds QueueManager(10, 5) by default and QueueManager(15, 5))
Init ==
    /\ max_size \in 1..MaxMaxSize
    /\ drop_threshold \in 1..Min(max_size, MaxDropThreshold)
    /\ queue = <<>>
    /\ frames = [f \in FrameIds |-> Blank]
    /\ last_frame_time = 0
    /\ processing_active = FALSE
    /\ lock = FALSE
    /\ now = Epoch
    /\ op = "init"
    /\ arg = None
    /\ ok = FALSE
    /\ ret = NoFrame
    /\ status = NoStatus
    /\ removed = 0
    /\ burst_n = 0
    /\ burst_acc = 0
    /\ phase = "none"
    /\ ai_processor = NotRunning
    /\ sse_manager = NotRunning
    /\ main = NotRunning
    /\ load_balancer = NotRunning

\* ------------------------------------------------------------- actions
\* time passes between two calls; a pause of half a second or more ends a burst
tick(t) ==
    /\ t > now
    /\ now' = t
    /\ Record("tick", None, FALSE, NoFrame, queue)
    /\ IF phase = "burst" /\ t - now >= min_frame_interval - MaxSubTicks
       THEN BurstStart(queue, processing_active)
       ELSE UNCHANGED <<burst_n, burst_acc, phase>>
    /\ UNCHANGED <<max_size, drop_threshold, queue, frames, last_frame_time,
                   processing_active, lock>>

\* add_frame(frame), frame being either an object the deque already refers to
\* (f pending) or a QueuedFrame the caller built with the given timestamp.
\* The burst counters stop one past the max_size + 5 calls of the scenario.
add_frame(f, timestamp) ==
    LET current_time == now
        queue_size == Len(queue)
        frame == IF f \in Pending(queue) THEN frames[f] ELSE QueuedFrame(timestamp)
        accepted == ~rejects(processing_active, queue_size, drop_threshold,
                             current_time - last_frame_time)
    IN  /\ IF f \in Pending(queue) THEN timestamp = frames[f].timestamp
                                   ELSE f = NewId(queue)
        /\ with_lock
        /\ Record("add_frame", None, accepted, NoFrame,
                  IF accepted THEN deque_append(queue, f, max_size) ELSE queue)
        /\ IF accepted
           THEN /\ append_proceeds(queue, max_size)
                /\ queue' = deque_append(queue, f, max_size)
                /\ frames' = Referenced(
                       [frames EXCEPT ![f] = [frame EXCEPT !.priority = priority_of(current_time),
                                                           !.admitted = current_time]],
                       queue')
           ELSE UNCHANGED <<frames, queue>>
        /\ last_frame_time' = last_time_after(accepted, current_time, last_frame_time)
        /\ IF phase = "burst"
           THEN /\ burst_n' = Min(burst_n + 1, max_size + 6)
                /\ burst_acc' = IF accepted THEN Min(burst_acc + 1, max_size + 6) ELSE burst_acc
                /\ phase' = "burst"
           ELSE /\ UNCHANGED <<burst_n, burst_acc>>
                /\ phase' = IF phase = "drained" THEN "next" ELSE "none"
        /\ UNCHANGED <<max_size, drop_threshold, processing_active, now>>

get_frame ==
    /\ with_lock
    /\ IF queue = <<>>
       THEN /\ Record("get_frame", None, FALSE, NoFrame, queue)
            /\ UNCHANGED <<queue, frames>>
       ELSE LET frame == queue[newest_index(queue, frames)]
            IN  /\ Record("get_frame", None, FALSE, [id |-> frame, frame |-> frames[frame]],
                          deque_remove(queue, frames, frame))
                /\ queue' = deque_remove(queue, frames, frame)
                /\ frames' = Referenced(frames, queue')
    /\ IF phase = "ended"
       THEN /\ phase' = "drained"
            /\ UNCHANGED <<burst_n, burst_acc>>
       ELSE BurstStart(queue', processing_active)
    /\ UNCHANGED <<max_size, drop_threshold, last_frame_time, processing_active, now>>

start_processing ==
    /\ with_lock
    /\ processing_active' = TRUE
    /\ Record("start_processing", None, FALSE, NoFrame, queue)
    /\ BurstStart(queue, TRUE)
    /\ UNCHANGED <<max_size, drop_threshold, queue, frames, last_frame_time, now>>

end_processing ==
    /\ with_lock
    /\ processing_active' = FALSE
    /\ Record("end_processing", None, FALSE, NoFrame, queue)
    /\ phase' = IF phase = "burst" /\ burst_n = max_size + 5 THEN "ended" ELSE "none"
    /\ burst_n' = 0
    /\ burst_acc' = 0
    /\ UNCHANGED <<max_size, drop_threshold, queue, frames, last_frame_time, now>>

clear_old_frames(max_age_seconds) ==
    LET current_time == now
    IN  /\ with_lock
        /\ queue' = not_too_old(queue, frames, current_time, max_age_seconds)
        /\ frames' = Referenced(frames, queue')
        /\ Record("clear_old_frames", max_age_seconds, FALSE, NoFrame,
                  not_too_old(queue, frames, current_time, max_age_seconds))
        /\ BurstStart(queue', processing_active)
        /\ UNCHANGED <<max_size, drop_threshold, last_frame_time, processing_active, now>>

unclamped_drop_rate(queue_size, threshold) ==
    IF queue_size < threshold THEN <<0, 1>> ELSE <<queue_size - threshold, threshold>>

\* _calculate_drop_rate, as a fraction <<num, den>>
calculate_drop_rate(queue_size, threshold) ==
    IF queue_size < threshold
    THEN <<0, 1>>
    ELSE IF 5 * (queue_size - threshold) >= 4 * threshold
         THEN <<4, 5>>
         ELSE <<queue_size - threshold, threshold>>

\* get_queue_status(), a plain def that does not take the lock.  Nothing
\* calls record_processing_time, so processing_times is empty and
\* avg_processing_time is 0
get_queue_status ==
    /\ op' = "get_queue_status"
    /\ arg' = None
    /\ ok' = FALSE
    /\ ret' = NoFrame
    /\ removed' = 0
    /\ status' = [queue_size |-> Len(queue),
                  drop_threshold |-> drop_threshold,
                  is_dropping |-> Len(queue) >= drop_threshold,
                  drop_rate |-> calculate_drop_rate(Len(queue), drop_threshold),
                  avg_processing_time |-> 0]
    /\ UNCHANGED <<max_size, drop_threshold, queue, frames, last_frame_time,
                   processing_active, lock, now, burst_n, burst_acc, phase>>

\* ------------------------------------------------------------- graph.py
\* LoadBalancer.can_process
can_process(count, limit) == count < limit

\* LoadBalancer.start_processing; _last_process_time only sets the priority
\* of a request, which nothing reads, and is left out
LoadBalancer_start_processing(count) == count + 1

\* LoadBalancer.end_processing
LoadBalancer_end_processing(count) == IF count - 1 > 0 THEN count - 1 ELSE 0

\* load_balancer_node, the entry node of the graph: the run is routed to the
\* llava node or, the balancer being busy, to END
load_balancer_node(r) ==
    /\ graph_run[r] = "none"
    /\ load_balancer' =
           [load_balancer EXCEPT !.graph_run[r] =
                IF can_process(processing_count, max_concurrent) THEN "llava" ELSE "dropped"]

\* llava_node up to its await of client.post.  The compiled graph runs each
\* node as a step of its own and awaits in between, so other requests run
\* between load_balancer_node and this step
llava_node_post(r) ==
    /\ graph_run[r] = "llava"
    /\ load_balancer' =
           [load_balancer EXCEPT
              !.processing_count = LoadBalancer_start_processing(@),
              !.graph_run[r] = "post"]

\* the POST returns or raises: the finally of llava_node
llava_node_finally(r) ==
    /\ graph_run[r] = "post"
    /\ load_balancer' =
           [load_balancer EXCEPT
              !.processing_count = LoadBalancer_end_processing(@),
              !.graph_run[r] = "end"]

\* ------------------------------------------------------------- worker
\* min(0.95, 0.7 + (motion_strength / 100) * 0.25), in ten-thousandths
raw_confidence(s) == Min(9500, 7000 + 25 * s)

\* the values of raw_confidence, for a strength of a whole percent, that lie
\* half way between two hundredths and that round(_, 2) rounds up: the double
\* nearest to them lies above the half (strengths 22, 70, 74 and 78)
TiesRoundedUp == {7550, 8750, 8850, 8950}

\* round(confidence, 2): ten-thousandths to hundredths
round2(x) ==
    IF x % 100 = 50
    THEN x \div 100 + (IF x \in TiesRoundedUp THEN 1 ELSE 0)
    ELSE (x + 50) \div 100

long_from_threshold(length) == length >= description_threshold

\* description and len(description) > 30
long_enough(length) == length > description_threshold

\* the confidence process_frame_with_llava returns for a 200 reply
confidence_of(length, s) ==
    IF long_enough(length) THEN round2(raw_confidence(s)) ELSE 50

\* the dict process_frame_with_llava returns
process_frame_with_llava(reply, s) ==
    CASE reply.kind = "200" ->
             [success |-> TRUE,
              description |-> IF reply.length > 0
                              THEN Description("response", reply.length, NoStrength)
                              ELSE Description("Motion detected", 0, format_strength(s)),
              confidence |-> confidence_of(reply.length, s),
              error |-> ""]
      [] reply.kind = "status" ->
             [success |-> FALSE,
              description |-> Description("AI analysis unavailable", 0, format_strength(s)),
              confidence |-> 50,
              error |-> "HTTP"]
      [] reply.kind = "timeout" ->
             [success |-> FALSE,
              description |-> Description("Analysis timeout", 0, format_strength(s)),
              confidence |-> 50,
              error |-> "Timeout"]
      [] OTHER ->
             [success |-> FALSE,
              description |-> Description("Analysis failed", 0, format_strength(s)),
              confidence |-> 50,
              error |-> "exception"]

\* the "data" of the message worker builds from job_data and the result
analysis_result(j, r) ==
    [frame_id |-> j.frame_id, description |-> r.description, confidence |-> r.confidence]

publish_first(channel, message) == <<message>> \o channel

\* redis publish: subscribers receive the messages in the order of the calls
publish(channel, message) == Append(channel, message)

not_awaited == "brpop"

\* result = await self.process_frame_with_llava(...): the worker is suspended
\* until the call returns
awaiting_analysis == "analyze"

swallowed_in_analysis(pc) ==
    IF pc = "analyze" THEN "publish" ELSE IF pc = "disconnect" THEN "done" ELSE "disconnect"

\* where CancelledError takes the task from the await that raises it: out of
\* the loop (break, or past the handlers from the sleep of the handler) and
\* into the finally of start_worker; out of the task from the finally
cancel_target(pc) == IF pc = "disconnect" THEN "done" ELSE "disconnect"

\* queue_frame_for_analysis: lpush of a job with a new frame id
queue_frame_for_analysis(motion_strength) ==
    /\ submitted < MaxJobs
    /\ ai_processor' =
           [ai_processor EXCEPT
              !.submitted = submitted + 1,
              !.processing_queue = <<[frame_id |-> submitted + 1,
                                      motion_strength |-> motion_strength]>> \o @]

\* worker: await self.connect(); a failure is re-raised into start_worker
w_connect(connected) ==
    /\ wpc = "connect"
    /\ ~cancel_pending
    /\ ai_processor' = [ai_processor EXCEPT
                          !.wpc = IF connected THEN "brpop" ELSE "disconnect"]

\* worker: brpop returns a job (the rightmost) and the worker goes on to the
\* call of process_frame_with_llava, or brpop raises.  A brpop that times out
\* on an empty list changes nothing.
w_brpop(raises) ==
    /\ wpc = "brpop"
    /\ ~cancel_pending
    /\ IF raises
       THEN ai_processor' = [ai_processor EXCEPT !.wpc = "sleep"]
       ELSE /\ processing_queue # <<>>
            /\ LET job_data == processing_queue[Len(processing_queue)]
               IN  ai_processor' =
                       [ai_processor EXCEPT
                          !.job = job_data,
                          !.processing_queue = SubSeq(@, 1, Len(@) - 1),
                          !.dequeued = Append(@, job_data.frame_id),
                          !.calls.worker = @ + 1,
                          !.wpc = awaiting_analysis]

\* worker: process_frame_with_llava returns; the worker builds the message and
\* calls publish
w_analysis_done(reply) ==
    /\ wpc = "analyze"
    /\ ~cancel_pending
    /\ ai_processor' =
           [ai_processor EXCEPT
              !.result = process_frame_with_llava(reply, job.motion_strength),
              !.calls.worker = @ - 1,
              !.wpc = "publish"]

\* worker: publish returns and the loop goes round, or publish raises and the
\* handler of Exception sleeps
w_publish(raises) ==
    /\ wpc = "publish"
    /\ ~cancel_pending
    /\ ai_processor' =
           [ai_processor EXCEPT
              !.published = IF raises THEN @
                            ELSE publish(@, analysis_result(job, result)),
              !.wpc = IF raises THEN "sleep" ELSE "brpop",
              !.job = NoJob,
              !.result = NoResult]

\* worker: await asyncio.sleep(1) of the handler of Exception returns
w_sleep_done ==
    /\ wpc = "sleep"
    /\ ~cancel_pending
    /\ ai_processor' = [ai_processor EXCEPT !.wpc = "brpop"]

\* the await the worker is suspended at raises CancelledError; a call of
\* process_frame_with_llava in flight is abandoned
w_cancelled ==
    /\ cancel_pending
    /\ wpc # "done"
    /\ ai_processor' =
           [ai_processor EXCEPT
              !.cancel_pending = FALSE,
              !.cancelled_at = wpc,
              !.wpc = cancel_target(wpc),
              !.calls.worker = IF wpc = "analyze" THEN @ - 1 ELSE @]

\* start_worker: finally: await self.disconnect()
w_disconnect ==
    /\ wpc = "disconnect"
    /\ ~cancel_pending
    /\ ai_processor' = [ai_processor EXCEPT !.wpc = "done"]

\* analyze_frame_polling: a request calls process_frame_with_llava itself
handler_call ==
    /\ requests < MaxRequests
    /\ ai_processor' = [ai_processor EXCEPT !.requests = requests + 1,
                                            !.calls.handler = @ + 1]

handler_return ==
    /\ calls.handler > 0
    /\ ai_processor' = [ai_processor EXCEPT !.calls.handler = @ - 1]

\* shutdown_event: task.cancel() for the background tasks; cancel() of a task
\* that is done does nothing
shutdown_cancel ==
    /\ shutdown = "running"
    /\ ai_processor' = [ai_processor EXCEPT !.shutdown = "gather",
                                            !.cancel_pending = (wpc # "done")]

\* shutdown_event: await asyncio.gather(*background_tasks, ...) returns when
\* the tasks are done
shutdown_return ==
    /\ shutdown = "gather"
    /\ wpc = "done"
    /\ ai_processor' = [ai_processor EXCEPT !.shutdown = "returned"]

\* ------------------------------------------------------------- event streams
\* the manager after a step: its name, its argument, what it returned
Did(after, name, a, returned) ==
    [after EXCEPT !.sse_op = name, !.sse_arg = a, !.sse_ret = returned]

\* the id of a client nobody registered before
NewClient == CHOOSE c \in ClientIds :
                 /\ outbox[c] = NoQueue
                 /\ \A d \in ClientIds : outbox[d] = NoQueue => c <= d

unguarded_del(registry, client_id) ==
    [connections |-> registry \ {client_id}, raised |-> client_id \notin registry]

\* disconnect: if client_id in self._connections: del self._connections[client_id]
disconnect_result(registry, client_id) ==
    [connections |-> registry \ {client_id}, raised |-> FALSE]

\* the registry after disconnect was called for each client of a set
RECURSIVE disconnect_all(_, _)
disconnect_all(registry, clients) ==
    IF clients = {}
    THEN [connections |-> registry, raised |-> FALSE]
    ELSE LET c == CHOOSE x \in clients : TRUE
             one == disconnect_result(registry, c)
             rest == disconnect_all(one.connections, clients \ {c})
         IN  [connections |-> rest.connections, raised |-> one.raised \/ rest.raised]

Returned(raised, value) == IF raised THEN "KeyError" ELSE value

\* connect: a queue without bound under a new uuid; the generator of the
\* response has yet to run
connect ==
    /\ \E c \in ClientIds : outbox[c] = NoQueue
    /\ Cardinality({ c \in ClientIds : stream[c] # "none" }) < MaxSubscribers
    /\ LET client_id == NewClient
       IN  sse_manager' =
               Did([sse_manager EXCEPT !.connections = @ \cup {client_id},
                                       !.outbox[client_id] = Queue(0),
                                       !.stream[client_id] = "created"],
                   "connect", client_id, "None")

\* manager._connections[client_id] = asyncio.Queue(maxsize), as the tests do
register(maxsize) ==
    /\ \E c \in ClientIds : outbox[c] = NoQueue
    /\ LET client_id == NewClient
       IN  sse_manager' =
               Did([sse_manager EXCEPT !.connections = @ \cup {client_id},
                                       !.outbox[client_id] = Queue(maxsize)],
                   "register", client_id, "None")

queued_first(client_id, q) ==
    IF q.items # <<>> THEN Head(q.items) ELSE Connected(client_id)

\* the first yield of event_generator
first_yield(client_id, q) == Connected(client_id)

\* the generator runs up to its first yield
start_stream(client_id) ==
    /\ stream[client_id] = "created"
    /\ sse_manager' =
           Did([sse_manager EXCEPT
                  !.stream[client_id] = "loop",
                  !.delivered[client_id] =
                      Append(@, first_yield(client_id, outbox[client_id]))],
               "start_stream", client_id, "None")

closed_on_timeout == "closed"

\* except asyncio.TimeoutError: yield the heartbeat, and the loop goes round
after_timeout == "loop"

\* the events yielded so far with one more.  Of the heartbeats the log keeps
\* the run at its end alone, as one entry that tells an even run from an odd
\* one; the event that follows a run takes its place.
Yielded(log, event) ==
    IF log # <<>> /\ log[Len(log)].event = "heartbeat"
    THEN IF event.event = "heartbeat"
         THEN [log EXCEPT ![Len(log)] = Event("heartbeat", 1 - @.data)]
         ELSE [log EXCEPT ![Len(log)] = event]
    ELSE Append(log, event)

\* one round of the while loop of event_generator: the request is gone and
\* the finally disconnects, or the queue hands over its first event, or the
\* 30 seconds of wait_for pass on an empty queue
stream_step(client_id) ==
    /\ stream[client_id] = "loop"
    /\ sse_manager' =
           IF gone[client_id]
           THEN LET r == disconnect_result(connections, client_id)
                IN  Did([sse_manager EXCEPT !.connections = r.connections,
                                            !.stream[client_id] = "closed"],
                        "stream_closed", client_id, Returned(r.raised, "None"))
           ELSE IF outbox[client_id].items # <<>>
           THEN Did([sse_manager EXCEPT
                       !.outbox[client_id].items = Tail(@),
                       !.delivered[client_id] = Yielded(@, Head(outbox[client_id].items))],
                    "yield", client_id, "None")
           ELSE Did([sse_manager EXCEPT
                       !.delivered[client_id] = Yielded(@, Heartbeat),
                       !.stream[client_id] = after_timeout,
                       !.connections = IF after_timeout = "loop" THEN @
                                       ELSE @ \ {client_id}],
                    "heartbeat", client_id, "None")

\* the client goes away: request.is_disconnected() is true from now on
client_leaves(client_id) ==
    /\ stream[client_id] \in {"created", "loop"}
    /\ ~gone[client_id]
    /\ sse_manager' = Did([sse_manager EXCEPT !.gone[client_id] = TRUE],
                          "client_leaves", client_id, "None")

\* the response is dropped before anything iterated its generator (the client
\* was gone when the response was about to start, or the caller of connect
\* never runs the response, as the tests do): a generator that never started
\* has no finally to run
response_abandoned(client_id) ==
    /\ stream[client_id] = "created"
    /\ gone[client_id]
    /\ sse_manager' = Did([sse_manager EXCEPT !.stream[client_id] = "abandoned"],
                          "response_abandoned", client_id, "None")

disconnect(client_id) ==
    LET r == disconnect_result(connections, client_id)
    IN  sse_manager' = Did([sse_manager EXCEPT !.connections = r.connections],
                           "disconnect", client_id, Returned(r.raised, "None"))

\* broadcast has no await: it runs from entry to return as one step
broadcast ==
    /\ sent < MaxEvents
    /\ LET event == Event("ai_analysis", sent + 1)
           disconnected_clients == { c \in connections : full(outbox[c]) }
           r == disconnect_all(connections, disconnected_clients)
       IN  sse_manager' =
               Did([sse_manager EXCEPT
                      !.sent = sent + 1,
                      !.outbox = [c \in ClientIds |->
                                    IF c \in connections /\ ~full(outbox[c])
                                    THEN put_nowait(outbox[c], event)
                                    ELSE outbox[c]],
                      !.connections = r.connections],
                   "broadcast", sent + 1, Returned(r.raised, "None"))

send_to_client(client_id) ==
    /\ sent < MaxEvents
    /\ LET event == Event("ai_analysis", sent + 1)
           called == [sse_manager EXCEPT !.sent = sent + 1]
       IN  sse_manager' =
               IF client_id \notin connections
               THEN Did(called, "send_to_client", client_id, "False")
               ELSE IF ~full(outbox[client_id])
               THEN Did([called EXCEPT !.outbox[client_id] = put_nowait(@, event)],
                        "send_to_client", client_id, "True")
               ELSE LET r == disconnect_result(connections, client_id)
                    IN  Did([called EXCEPT !.connections = r.connections],
                            "send_to_client", client_id, Returned(r.raised, "False"))

\* what analyze_with_gemini does for analyze_image: a result with success
\* true, a result with success false whose error_message names the quota or
\* does not, or an exception (get_analyzer raises without an API key)
GeminiOutcomes == {"success", "failure", "quota", "raises"}

\* analyze_image of server.py.  analyze_with_gemini calls the model with a
\* blocking call and broadcast has no await, so the handler is one step.  The
\* counter numbers the analyses, published or not.
analyze_image(outcome) ==
    /\ sent < MaxEvents
    /\ LET event == Event("ai_analysis", sent + 1)
           called == [sse_manager EXCEPT !.sent = sent + 1]
           disconnected_clients == { c \in connections : full(outbox[c]) }
           r == disconnect_all(connections, disconnected_clients)
       IN  sse_manager' =
               IF outcome = "success"
               THEN Did([called EXCEPT
                           !.outbox = [c \in ClientIds |->
                                         IF c \in connections /\ ~full(outbox[c])
                                         THEN put_nowait(outbox[c], event)
                                         ELSE outbox[c]],
                           !.connections = r.connections],
                        "analyze_image", sent + 1, "success")
               ELSE IF outcome = "quota"
               THEN Did(called, "analyze_image", sent + 1, "HTTPException")
               ELSE Did(called, "analyze_image", sent + 1, "failure")

\* ------------------------------------------------------------- main.py
always_suspends(q) == TRUE

\* await queue.put(item) suspends the caller only while the queue is full
put_suspends(q) == full(q)

Without(registry, connection_id) ==
    SelectSeq(registry, LAMBDA c : c # connection_id)

\* the for loop over sse_connections.items() from the connections still to
\* visit, up to the first put that suspends
RECURSIVE put_until_suspended(_, _, _)
put_until_suspended(todo, queues, event) ==
    IF todo = <<>>
    THEN [queues |-> queues, remaining |-> <<>>]
    ELSE IF put_suspends(queues[Head(todo)])
    THEN [queues |-> queues, remaining |-> todo]
    ELSE put_until_suspended(
             Tail(todo),
             [queues EXCEPT ![Head(todo)].items = Append(@, event)],
             event)

\* the call runs on from where it is: from its entry, or from the put it was
\* suspended at, to its next suspension or its return.  No put raises, so
\* disconnected_connections stays empty and the closing loop deletes nothing.
\* The next step of a dict iterator raises RuntimeError when the dict changed
\* size since the iteration began.
send_to_sse_connections ==
    IF ~sender.active
    THEN /\ results < MaxResults
         /\ LET r == put_until_suspended(sse_connections, connection_queue, results + 1)
            IN  main' = [main EXCEPT
                           !.results = results + 1,
                           !.connection_queue = r.queues,
                           !.sender = IF r.remaining = <<>> THEN Idle
                                      ELSE [active |-> TRUE, remaining |-> r.remaining,
                                            size |-> Len(sse_connections),
                                            event |-> results + 1]]
    ELSE LET put == [connection_queue EXCEPT
                       ![Head(sender.remaining)].items = Append(@, sender.event)]
         IN  IF Len(sse_connections) # sender.size
             THEN main' = [main EXCEPT !.dict_changed = TRUE,
                                       !.connection_queue = put,
                                       !.sender = Idle]
             ELSE LET r == put_until_suspended(Tail(sender.remaining), put, sender.event)
                  IN  main' = [main EXCEPT
                                 !.connection_queue = r.queues,
                                 !.sender = IF r.remaining = <<>> THEN Idle
                                            ELSE [sender EXCEPT !.remaining = r.remaining]]

\* ai_analysis_stream: a queue without bound under a new uuid
ai_analysis_stream ==
    /\ \E c \in ConnectionIds : generator[c] = "none"
    /\ LET connection_id == CHOOSE c \in ConnectionIds :
                                /\ generator[c] = "none"
                                /\ \A d \in ConnectionIds : generator[d] = "none" => c <= d
       IN  main' = [main EXCEPT !.sse_connections = Append(@, connection_id),
                                !.connection_queue[connection_id] = Queue(0),
                                !.generator[connection_id] = "open"]

\* the event_generator of ai_analysis_stream takes an event off its queue
event_generator_get(connection_id) ==
    /\ generator[connection_id] = "open"
    /\ connection_queue[connection_id].items # <<>>
    /\ main' = [main EXCEPT !.connection_queue[connection_id].items = Tail(@)]

\* the stream ends; finally: if connection_id in sse_connections: del
event_generator_finally(connection_id) ==
    /\ generator[connection_id] = "open"
    /\ main' = [main EXCEPT !.generator[connection_id] = "closed",
                            !.sse_connections = Without(@, connection_id)]

\* create_motion_event on a thread of the pool, up to the evaluation of
\* len(dummy_motion_events) + 1
create_motion_event_read(r) ==
    /\ thread[r].pc = "idle"
    /\ main' = [main EXCEPT
                  !.thread[r] = [pc |-> "read", id |-> Len(dummy_motion_events) + 1]]

\* dummy_motion_events.append(new_event); return new_event
create_motion_event_append(r) ==
    /\ thread[r].pc = "read"
    /\ main' = [main EXCEPT !.dummy_motion_events = Append(@, thread[r].id),
                            !.thread[r].pc = "done"]

\* ------------------------------------------------------------- main.py: polling
\* what process_frame_with_llava does for analyze_frame_polling: a result
\* with success true, one without, or an exception
DirectOutcomes == {"success", "failure", "raises"}

\* analyze_frame_polling from the return of process_frame_with_llava on, the
\* part that touches the store: a successful direct analysis is returned at
\* once and an exception is answered with status failed, both without a
\* stored entry; otherwise the entry is stored as processing and
\* process_later is started as a task
analyze_frame_polling(frame_id, outcome) ==
    /\ submissions < MaxSubmissions
    /\ main' =
           IF outcome = "failure"
           THEN [main EXCEPT !.submissions = @ + 1,
                             !.polling_results[frame_id] = Processing,
                             !.later[submissions + 1] =
                                 [pc |-> "sleep", frame_id |-> frame_id],
                             !.poll = NoPoll]
           ELSE [main EXCEPT !.submissions = @ + 1,
                             !.poll = NoPoll]

\* process_later after its asyncio.sleep(3): the entry of its frame id is
\* replaced by the completed one.  No stream is connected in the
\* specification of the store, so send_to_sse_connections finds nothing to
\* send to
process_later(n) ==
    /\ later[n].pc = "sleep"
    /\ main' = [main EXCEPT !.polling_results[later[n].frame_id] = Completed(n),
                            !.later[n].pc = "done",
                            !.poll = NoPoll]

kept_result(store, frame_id) == store

\* del polling_results[frame_id]
del_result(store, frame_id) == [store EXCEPT ![frame_id] = NoEntry]

\* the for loop of poll_analysis_results over the rest of frame_ids.  No
\* entry is ever stored with status failed
RECURSIVE poll_loop(_, _)
poll_loop(frame_ids, so_far) ==
    IF frame_ids = <<>>
    THEN so_far
    ELSE LET frame_id == Head(frame_ids)
             entry == so_far.store[frame_id]
         IN  poll_loop(Tail(frame_ids),
                 IF entry.status = "completed"
                 THEN [so_far EXCEPT !.completed = Append(@, entry.analysis),
                                     !.store = del_result(@, frame_id)]
                 ELSE IF entry.status = "processing"
                 THEN [so_far EXCEPT !.pending = Append(@, frame_id)]
                 ELSE [so_far EXCEPT !.failed = Append(@, frame_id)])

\* how often x is in a list
Count(list, x) == Cardinality({ i \in 1..Len(list) : list[i] = x })

\* poll_analysis_results has no await: it runs from entry to return as one
\* step
poll_analysis_results(frame_ids) ==
    LET response == poll_loop(frame_ids,
                        [store |-> polling_results,
                         completed |-> <<>>, failed |-> <<>>, pending |-> <<>>])
    IN  main' = [main EXCEPT
                   !.polling_results = response.store,
                   !.poll = [called |-> TRUE, frame_ids |-> frame_ids,
                             completed |-> response.completed,
                             failed |-> response.failed,
                             pending |-> response.pending],
                   !.poll_returned = [n \in Submissions |->
                                   Min(2, @[n] + Count(response.completed, n))]]

\* ------------------------------------------------------------- specifications
\* the caller stamps a frame it builds with the current time, or with the time
\* the manager was built (a frame it held back before submitting it)
Next ==
    \/ (\E t \in TimePoints : tick(t)) /\ UNCHANGED notQueue
    \/ (\E f \in FrameIds, ts \in {Epoch, now} : add_frame(f, ts)) /\ UNCHANGED notQueue
    \/ get_frame /\ UNCHANGED notQueue
    \/ start_processing /\ UNCHANGED notQueue
    \/ end_processing /\ UNCHANGED notQueue
    \/ (\E a \in MaxAges : clear_old_frames(a)) /\ UNCHANGED notQueue

Spec == Init /\ [][Next]_vars

\* get_queue_status between the calls that make the deque longer and
\* shorter: producers submit newly built frames as time passes, the worker
\* takes frames and marks itself busy and idle
NextStatus ==
    \/ (\E t \in TimePoints : tick(t)) /\ UNCHANGED notQueue
    \/ add_frame(NewId(queue), now) /\ UNCHANGED notQueue
    \/ get_frame /\ UNCHANGED notQueue
    \/ start_processing /\ UNCHANGED notQueue
    \/ end_processing /\ UNCHANGED notQueue
    \/ get_queue_status /\ UNCHANGED notQueue

SpecStatus == Init /\ [][NextStatus]_vars

\* the steps of the worker task
WorkerStep ==
    \/ \E connected \in BOOLEAN : w_connect(connected)
    \/ \E raises \in BOOLEAN : w_brpop(raises)
    \/ \E reply \in Replies : w_analysis_done(reply)
    \/ \E raises \in BOOLEAN : w_publish(raises)
    \/ w_sleep_done
    \/ w_cancelled
    \/ w_disconnect

\* queue_manager = QueueManager(max_size=15, drop_threshold=5), which nothing
\* in the program calls
InitWorker ==
    /\ max_size = 15
    /\ drop_threshold = 5
    /\ queue = <<>>
    /\ frames = [f \in FrameIds |-> Blank]
    /\ last_frame_time = 0
    /\ processing_active = FALSE
    /\ lock = FALSE
    /\ now = Epoch
    /\ op = "init"
    /\ arg = None
    /\ ok = FALSE
    /\ ret = NoFrame
    /\ status = NoStatus
    /\ removed = 0
    /\ burst_n = 0
    /\ burst_acc = 0
    /\ phase = "none"
    /\ WorkerInit
    /\ sse_manager = NotRunning
    /\ main = NotRunning
    /\ load_balancer = NotRunning

NextWorker ==
    \/ (\E s \in Strengths : queue_frame_for_analysis(s)) /\ UNCHANGED notWorker
    \/ (\E connected \in BOOLEAN : w_connect(connected)) /\ UNCHANGED notWorker
    \/ (\E raises \in BOOLEAN : w_brpop(raises)) /\ UNCHANGED notWorker
    \/ (\E reply \in Replies : w_analysis_done(reply)) /\ UNCHANGED notWorker
    \/ (\E raises \in BOOLEAN : w_publish(raises)) /\ UNCHANGED notWorker
    \/ w_sleep_done /\ UNCHANGED notWorker
    \/ w_cancelled /\ UNCHANGED notWorker
    \/ w_disconnect /\ UNCHANGED notWorker
    \/ handler_call /\ UNCHANGED notWorker
    \/ handler_return /\ UNCHANGED notWorker
    \/ shutdown_cancel /\ UNCHANGED notWorker
    \/ shutdown_return /\ UNCHANGED notWorker

SpecWorker == InitWorker /\ [][NextWorker]_vars

\* the event loop resumes a task that can run: an await the worker is
\* suspended at returns or raises, and gather returns once the tasks are done
SpecWorkerFair ==
    /\ SpecWorker
    /\ WF_vars(WorkerStep /\ UNCHANGED notWorker)
    /\ WF_vars(shutdown_return /\ UNCHANGED notWorker)

\* apps/api/sse_manager.py: the registry and the outboxes, as the callers
\* of the manager and its tests drive them; no generator runs
InitSSE ==
    /\ max_size = 15
    /\ drop_threshold = 5
    /\ queue = <<>>
    /\ frames = [f \in FrameIds |-> Blank]
    /\ last_frame_time = 0
    /\ processing_active = FALSE
    /\ lock = FALSE
    /\ now = Epoch
    /\ op = "init"
    /\ arg = None
    /\ ok = FALSE
    /\ ret = NoFrame
    /\ status = NoStatus
    /\ removed = 0
    /\ burst_n = 0
    /\ burst_acc = 0
    /\ phase = "none"
    /\ ai_processor = NotRunning
    /\ SSEInit
    /\ main = NotRunning
    /\ load_balancer = NotRunning

NextSSE ==
    \/ connect /\ UNCHANGED notSSE
    \/ (\E maxsize \in 0..MaxOutbox : register(maxsize)) /\ UNCHANGED notSSE
    \/ (\E c \in ClientIds : disconnect(c)) /\ UNCHANGED notSSE
    \/ broadcast /\ UNCHANGED notSSE
    \/ (\E c \in ClientIds : send_to_client(c)) /\ UNCHANGED notSSE

SpecSSE == InitSSE /\ [][NextSSE]_vars

\* apps/api/sse_manager.py as apps/api/server.py drives it: clients come
\* through connect, their generators run, and results are broadcast
NextStream ==
    \/ connect /\ UNCHANGED notSSE
    \/ (\E c \in ClientIds : start_stream(c)) /\ UNCHANGED notSSE
    \/ (\E c \in ClientIds : stream_step(c)) /\ UNCHANGED notSSE
    \/ (\E c \in ClientIds : client_leaves(c)) /\ UNCHANGED notSSE
    \/ (\E c \in ClientIds : response_abandoned(c)) /\ UNCHANGED notSSE
    \/ broadcast /\ UNCHANGED notSSE

SpecStream == InitSSE /\ [][NextStream]_vars

\* the streams of connect with both ways of enqueuing an event, broadcast
\* and send_to_client
NextDelivery ==
    \/ connect /\ UNCHANGED notSSE
    \/ (\E c \in ClientIds : start_stream(c)) /\ UNCHANGED notSSE
    \/ (\E c \in ClientIds : stream_step(c)) /\ UNCHANGED notSSE
    \/ (\E c \in ClientIds : client_leaves(c)) /\ UNCHANGED notSSE
    \/ (\E c \in ClientIds : response_abandoned(c)) /\ UNCHANGED notSSE
    \/ broadcast /\ UNCHANGED notSSE
    \/ (\E c \in ClientIds : send_to_client(c)) /\ UNCHANGED notSSE

SpecDelivery == InitSSE /\ [][NextDelivery]_vars

\* the scheduling of SpecStreamFair
SpecDeliveryFair ==
    /\ SpecDelivery
    /\ \A c \in ClientIds : WF_vars(stream_step(c) /\ UNCHANGED notSSE)
    /\ \A c \in ClientIds :
          WF_vars((start_stream(c) \/ response_abandoned(c)) /\ UNCHANGED notSSE)

\* apps/api/server.py: stream_events and analyze_image on the manager
NextServer ==
    \/ connect /\ UNCHANGED notSSE
    \/ (\E c \in ClientIds : start_stream(c)) /\ UNCHANGED notSSE
    \/ (\E c \in ClientIds : stream_step(c)) /\ UNCHANGED notSSE
    \/ (\E c \in ClientIds : client_leaves(c)) /\ UNCHANGED notSSE
    \/ (\E c \in ClientIds : response_abandoned(c)) /\ UNCHANGED notSSE
    \/ (\E outcome \in GeminiOutcomes : analyze_image(outcome)) /\ UNCHANGED notSSE

SpecServer == InitSSE /\ [][NextServer]_vars

\* the event loop resumes a generator whose await can return: a started
\* stream gets its next round.  A response does not stay unserved: its
\* generator is started, or the response is dropped
SpecStreamFair ==
    /\ SpecStream
    /\ \A c \in ClientIds : WF_vars(stream_step(c) /\ UNCHANGED notSSE)
    /\ \A c \in ClientIds :
          WF_vars((start_stream(c) \/ response_abandoned(c)) /\ UNCHANGED notSSE)

\* apps/api/main.py: sse_connections and dummy_motion_events
InitMain ==
    /\ max_size = 15
    /\ drop_threshold = 5
    /\ queue = <<>>
    /\ frames = [f \in FrameIds |-> Blank]
    /\ last_frame_time = 0
    /\ processing_active = FALSE
    /\ lock = FALSE
    /\ now = Epoch
    /\ op = "init"
    /\ arg = None
    /\ ok = FALSE
    /\ ret = NoFrame
    /\ status = NoStatus
    /\ removed = 0
    /\ burst_n = 0
    /\ burst_acc = 0
    /\ phase = "none"
    /\ ai_processor = NotRunning
    /\ sse_manager = NotRunning
    /\ MainInit
    /\ load_balancer = NotRunning

NextMain ==
    \/ send_to_sse_connections /\ UNCHANGED notMain
    \/ ai_analysis_stream /\ UNCHANGED notMain
    \/ (\E c \in ConnectionIds : event_generator_get(c)) /\ UNCHANGED notMain
    \/ (\E c \in ConnectionIds : event_generator_finally(c)) /\ UNCHANGED notMain
    \/ (\E r \in ThreadIds : create_motion_event_read(r)) /\ UNCHANGED notMain
    \/ (\E r \in ThreadIds : create_motion_event_append(r)) /\ UNCHANGED notMain

SpecMain == InitMain /\ [][NextMain]_vars

\* apps/api/main.py: the polling store polling_results
NextPolling ==
    \/ (\E f \in PollFrames, outcome \in DirectOutcomes :
            analyze_frame_polling(f, outcome)) /\ UNCHANGED notMain
    \/ (\E n \in Submissions : process_later(n)) /\ UNCHANGED notMain
    \/ (\E frame_ids \in Lists(MaxPollIds) :
            poll_analysis_results(frame_ids)) /\ UNCHANGED notMain

SpecPolling == InitMain /\ [][NextPolling]_vars

\* apps/api/graph.py: concurrent analyze_with_graph calls on one LoadBalancer
InitGraph ==
    /\ max_size = 15
    /\ drop_threshold = 5
    /\ queue = <<>>
    /\ frames = [f \in FrameIds |-> Blank]
    /\ last_frame_time = 0
    /\ processing_active = FALSE
    /\ lock = FALSE
    /\ now = Epoch
    /\ op = "init"
    /\ arg = None
    /\ ok = FALSE
    /\ ret = NoFrame
    /\ status = NoStatus
    /\ removed = 0
    /\ burst_n = 0
    /\ burst_acc = 0
    /\ phase = "none"
    /\ ai_processor = NotRunning
    /\ sse_manager = NotRunning
    /\ main = NotRunning
    /\ \E config \in 1..MaxConcurrent : load_balancer = LoadBalancer(config)

NextGraph ==
    \/ (\E r \in GraphRequests : load_balancer_node(r)) /\ UNCHANGED notGraph
    \/ (\E r \in GraphRequests : llava_node_post(r)) /\ UNCHANGED notGraph
    \/ (\E r \in GraphRequests : llava_node_finally(r)) /\ UNCHANGED notGraph

SpecGraph == InitGraph /\ [][NextGraph]_vars

\* ------------------------------------------------------------- typing
TypeOK ==
    /\ max_size \in 1..MaxMaxSize
    /\ drop_threshold \in 1..max_size
    /\ queue \in Seq(FrameIds)
    /\ processing_active \in BOOLEAN
    /\ lock \in BOOLEAN
    /\ now \in TimePoints
    /\ ok \in BOOLEAN
    /\ ret.id \in FrameIds \cup {None}

WorkerTypeOK ==
    /\ wpc \in Locations
    /\ processing_queue \in Seq([frame_id : 1..MaxJobs, motion_strength : Strengths])
    /\ job.frame_id \in (1..MaxJobs) \cup {None}
    /\ calls.worker \in 0..1
    /\ calls.handler \in 0..requests
    /\ requests \in 0..MaxRequests
    /\ cancel_pending \in BOOLEAN
    /\ shutdown \in {"running", "gather", "returned"}
    /\ submitted \in 0..MaxJobs
    /\ Len(dequeued) + Len(processing_queue) = submitted
    /\ cancelled_at \in Locations \cup {"none"}

\* ------------------------------------------------------------- claims
TimeSinceLast == now - last_frame_time

\* 4 * dropRate of the specification, times 5 * drop_threshold:
\* dropRate = min(0.8, (len - dropThreshold) / dropThreshold) from the threshold on, else 0
FourDropRate(len) ==
    IF len >= drop_threshold
    THEN Min(16 * drop_threshold, 20 * (len - drop_threshold))
    ELSE 0

\* time since the last accepted frame < minInterval * (1 + 4 * dropRate)
WithinInterval(len) ==
    5 * drop_threshold * TimeSinceLast
        < min_frame_interval * (5 * drop_threshold + FourDropRate(len))

\* C1: after any sequence of add_frame, get_frame and clear_old_frames calls
\* the number of pending frames never exceeds max_size.
C1_QueueBounded == Len(queue) <= max_size

\* a frame accepted into a queue that is at capacity afterwards
C1_Witness ==
    /\ op = "add_frame"
    /\ ok
    /\ Len(queue) = max_size
    /\ max_size >= 2

\* C2: with processing_active true and at least drop_threshold frames pending,
\* add_frame returns False and leaves the queue as it is, whatever the time
\* since the last accepted frame.
C2_HardBackpressure ==
    [][(op' = "add_frame" /\ processing_active /\ Len(queue) >= drop_threshold)
        => (~ok' /\ queue' = queue /\ frames' = frames)]_vars

\* a rejection by a busy worker although the interval rule alone was satisfied
C2_Witness ==
    /\ op = "add_frame"
    /\ ~ok
    /\ processing_active
    /\ Len(queue) >= drop_threshold
    /\ ~WithinInterval(Len(queue))

\* C3 as stated: with the worker not processing, add_frame rejects exactly
\* when dropRate > 0 and the time since the last accepted frame is under
\* minInterval * (1 + 4 * dropRate); a frame at len = dropThreshold is accepted.
C3_Original ==
    [][(op' = "add_frame" /\ ~processing_active)
        => (~ok' <=> (FourDropRate(Len(queue)) > 0 /\ WithinInterval(Len(queue))))]_vars

\* C3 amended: with the worker not processing, add_frame rejects exactly when
\* len(pending) >= dropThreshold and the time since the last accepted frame is
\* under minInterval * (1 + 4 * dropRate); at len = dropThreshold (dropRate 0)
\* a frame is rejected while less than minInterval has passed.
C3_Amended ==
    [][(op' = "add_frame" /\ ~processing_active)
        => (~ok' <=> (Len(queue) >= drop_threshold /\ WithinInterval(Len(queue))))]_vars

\* an idle worker, exactly drop_threshold frames pending, and a rejection
C3_Witness ==
    /\ op = "add_frame"
    /\ ~ok
    /\ ~processing_active
    /\ Len(queue) = drop_threshold
    /\ TimeSinceLast < min_frame_interval

\* C4 as stated: from an empty queue with processing_active true, max_size + 5
\* rapid submissions give exactly max_size accepted and at least 5 rejected.
C4_Original ==
    (phase = "burst" /\ burst_n = max_size + 5)
        => (burst_acc = max_size /\ burst_n - burst_acc >= 5)

\* C4 amended: from an empty queue with processing_active true, max_size + 5
\* rapid submissions give exactly drop_threshold accepted frames, all of them
\* still pending (none evicted), and max_size + 5 - drop_threshold rejected.
C4_Amended ==
    (phase = "burst" /\ burst_n = max_size + 5)
        => /\ burst_acc = drop_threshold
           /\ Len(queue) = drop_threshold
           /\ burst_n - burst_acc = max_size + 5 - drop_threshold
           /\ burst_n - burst_acc >= 5

\* the end of such a burst on a queue whose threshold is below its capacity
C4_Witness ==
    /\ phase = "burst"
    /\ burst_n = max_size + 5
    /\ drop_threshold < max_size
    /\ op = "add_frame"

\* C5: after such a burst, end_processing and one get_frame, the next
\* add_frame returns True, also when it follows immediately.
C5_AcceptedAfterDrain ==
    [][(phase = "drained" /\ op' = "add_frame") => ok']_vars

\* the submission after the drain, accepted at the time of the burst
C5_Witness ==
    /\ phase = "next"
    /\ op = "add_frame"
    /\ ok
    /\ Len(queue) = drop_threshold
    /\ now = Epoch

\* C6 as stated: with processing_active true and exactly drop_threshold frames
\* pending, the first submission of a burst is accepted, the following rejected.
C6_Original ==
    [][(op' = "add_frame" /\ processing_active /\ Len(queue) = drop_threshold)
        => (IF op = "add_frame" THEN ~ok' ELSE ok')]_vars

\* C6 amended: with processing_active true and exactly drop_threshold frames
\* pending, every submission of the burst is rejected, the first included, and
\* the queue still holds drop_threshold frames for the next one.
C6_Amended ==
    [][(op' = "add_frame" /\ processing_active /\ Len(queue) = drop_threshold)
        => (~ok' /\ Len(queue') = drop_threshold /\ processing_active')]_vars

\* the first submission of a burst, within min_frame_interval, rejected
C6_Witness ==
    /\ op = "add_frame"
    /\ ~ok
    /\ processing_active
    /\ Len(queue) = drop_threshold
    /\ TimeSinceLast < min_frame_interval
    /\ phase = "none"

\* C7: for a fixed processing_active and a fixed time since the last accepted
\* frame, a submission rejected at pending length d is rejected at every
\* pending length d2 with d <= d2 <= max_size.
C7_Monotone ==
    \A active \in BOOLEAN : \A d \in 0..max_size : \A d2 \in d..max_size :
        rejects(active, d, drop_threshold, TimeSinceLast)
            => rejects(active, d2, drop_threshold, TimeSinceLast)

\* a rejected submission whose interval is accepted at the threshold and
\* rejected at the depth of the queue
C7_Witness ==
    /\ op = "add_frame"
    /\ ~ok
    /\ ~processing_active
    /\ Len(queue) > drop_threshold
    /\ ~rejects(FALSE, drop_threshold, drop_threshold, TimeSinceLast)
    /\ rejects(FALSE, Len(queue), drop_threshold, TimeSinceLast)

\* C8: when add_frame accepts a frame while the queue holds max_size frames,
\* exactly one pending frame is removed, it is the one of lowest priority, and
\* the queue length stays max_size.
C8_EvictsLowest ==
    [][(op' = "add_frame" /\ ok' /\ Len(queue) = max_size)
        => /\ Len(queue') = max_size
           /\ \A i \in 1..(max_size - 1) : queue'[i] = queue[i + 1]
           /\ \A i \in 1..Len(queue) :
                  frames[Head(queue)].priority <= frames[queue[i]].priority]_vars

\* C9: get_frame on a non-empty queue removes exactly one pending frame and
\* returns it, and no frame that stays pending has a higher priority; on an
\* empty queue it returns None and changes nothing.
C9_GetFrame ==
    [][op' = "get_frame"
        => IF queue = <<>>
           THEN /\ ret'.id = None
                /\ UNCHANGED <<queue, frames, last_frame_time, processing_active>>
           ELSE /\ ret'.id \in Pending(queue)
                /\ ret'.frame = frames[ret'.id]
                /\ \E i \in 1..Len(queue) :
                       queue[i] = ret'.id /\ queue' = RemoveAt(queue, i)
                /\ \A j \in 1..Len(queue') :
                       frames[queue'[j]].priority <= ret'.frame.priority
                /\ UNCHANGED <<last_frame_time, processing_active>>]_vars

\* a frame returned while an older one, of lower priority, stays pending
C9_Witness ==
    /\ op = "get_frame"
    /\ ret.id # None
    /\ \E j \in 1..Len(queue) : frames[queue[j]].priority < ret.frame.priority

\* C10: frames accepted at strictly increasing times come out of get_frame
\* latest first: get_frame never returns a frame while a frame accepted at a
\* strictly later time is pending.
C10_LatestFirst ==
    [][(op' = "get_frame" /\ queue # <<>>)
        => \A j \in 1..Len(queue') :
               frames[queue'[j]].admitted <= ret'.frame.admitted]_vars

\* the deque after the step holds the entries of the deque before it whose
\* index is in S, in the order they had
KeptInOrder(S) ==
    /\ Len(queue') = Cardinality(S)
    /\ \A i \in S : queue'[Cardinality({ j \in S : j <= i })] = queue[i]

\* C11 as stated: clear_old_frames(maxAge) removes exactly the pending frames
\* whose age, counted from the time they were admitted, exceeds maxAge; the
\* frames it keeps stay in their order and the capacity is unchanged.
C11_Original ==
    [][op' = "clear_old_frames"
        => /\ KeptInOrder({ i \in 1..Len(queue) : now - frames[queue[i]].admitted <= arg' })
           /\ max_size' = max_size]_vars

\* C11: clear_old_frames(max_age_seconds) removes exactly the pending frames
\* whose age, counted from the timestamp field the caller gave the frame,
\* exceeds max_age_seconds; the frames it keeps stay in their order and the
\* capacity is unchanged.
C11_Amended ==
    [][op' = "clear_old_frames"
        => /\ KeptInOrder({ i \in 1..Len(queue) : now - frames[queue[i]].timestamp <= arg' })
           /\ max_size' = max_size]_vars

\* a call that removed a frame and kept two, one of them of exactly the
\* maximum age
C11_Witness ==
    /\ op = "clear_old_frames"
    /\ removed >= 1
    /\ Len(queue) >= 2
    /\ \E i \in 1..Len(queue) : now - frames[queue[i]].timestamp = arg

\* ------------------------------------------------------------- claims: worker
\* the worker holds a frame it took off the list and has yet to publish
HoldsFrame == wpc \in {"analyze", "publish"}

\* C12: processing_active is true exactly while the analysis worker holds a
\* dequeued frame: set before the analysis, cleared after every outcome.
C12_ActiveWhileHolding == processing_active <=> HoldsFrame

C14_FailurePublished ==
    [][(wpc = "publish" /\ ~result.success /\ wpc' # "publish" /\ cancelled_at' = "none")
        => /\ published' = Append(published, [frame_id |-> job.frame_id,
                                              description |-> result.description,
                                              confidence |-> 50])
           /\ wpc' = "brpop"]_vars

\* the messages published for frame id
PublishedFor(id) == { i \in 1..Len(published) : published[i].frame_id = id }

\* C15: with no cancellation, whenever the worker is between two frames every
\* frame it took off the list has exactly one published result.
C15_ExactlyOnce ==
    (wpc \in {"brpop", "sleep"} /\ ~cancel_pending /\ cancelled_at = "none")
        => \A k \in 1..Len(dequeued) : Cardinality(PublishedFor(dequeued[k])) = 1

\* C16: a worker cancelled while the analysis call was in flight has published
\* the result of that frame.
C16_NoDropOnCancel ==
    cancelled_at = "analyze" => PublishedFor(dequeued[Len(dequeued)]) # {}

\* C17: once shutdown_event has cancelled the worker task the task ends,
\* wherever it was suspended, and shutdown_event goes past its gather only
\* when the task has ended.
C17_Terminates ==
    /\ (shutdown # "running") ~> (wpc = "done")
    /\ [](shutdown = "returned" => wpc = "done")

\* shutdown has returned after cancelling a worker that was pausing after an
\* error, with a frame still on the list
C17_Witness ==
    /\ shutdown = "returned"
    /\ cancelled_at = "sleep"
    /\ processing_queue # <<>>

\* the place of frame id in the order the worker took the frames
DequeuedAt(id) == CHOOSE k \in 1..Len(dequeued) : dequeued[k] = id

\* C18: the results are published in the order their frames were dequeued.
C18_PublishedInDequeueOrder ==
    /\ \A i \in 1..Len(published) :
           \E k \in 1..Len(dequeued) : dequeued[k] = published[i].frame_id
    /\ \A i, j \in 1..Len(published) :
           i < j => DequeuedAt(published[i].frame_id) < DequeuedAt(published[j].frame_id)

\* two results published
C18_Witness == Len(published) = 2 /\ wpc = "brpop"

\* the message the step publishes
Sent == published'[Len(published')]

ConfidenceFormula == IF 7000 + 25 * job.motion_strength > 9500
           THEN 9500 ELSE 7000 + 25 * job.motion_strength

\* C20 as stated: a successful analysis with a description of more than 30
\* characters has the confidence min(0.95, 0.7 + s/100 * 0.25), in
\* [0.7, 0.95]; with a shorter or empty description it is 0.5.
C20_Original ==
    (wpc = "publish" /\ result.success)
        => IF result.description.length > 30
           THEN 100 * result.confidence = ConfidenceFormula /\ result.confidence \in 70..95
           ELSE result.confidence = 50

\* C20: a successful analysis with a description of more than 30 characters
\* has the confidence min(0.95, 0.7 + s/100 * 0.25) rounded to two decimals,
\* in [0.7, 0.95]; with a description of at most 30 characters it is 0.5.
C20_Amended ==
    (wpc = "publish" /\ result.success)
        => IF result.description.length > 30
           THEN /\ 100 * result.confidence - ConfidenceFormula \in -50..50
                /\ result.confidence \in 70..95
           ELSE result.confidence = 50

\* a confidence that the rounding moved off the formula
C20_Witness ==
    /\ wpc = "publish"
    /\ result.success
    /\ result.description.length > 30
    /\ 100 * result.confidence # ConfidenceFormula

\* ------------------------------------------------------------- claims: queue, continued
\* C29: an add_frame call that returns False leaves the pending frames,
\* last_frame_time and processing_active unchanged; last_frame_time changes
\* only when a frame is accepted and is then the time of that acceptance.
C29_RejectionChangesNothing ==
    [][/\ (op' = "add_frame" /\ ~ok')
            => UNCHANGED <<queue, frames, last_frame_time, processing_active>>
       /\ (op' = "add_frame" /\ ok') => last_frame_time' = now
       /\ last_frame_time' # last_frame_time => (op' = "add_frame" /\ ok')]_vars

\* a rejected call, later than the last acceptance, with frames pending
C29_Witness ==
    /\ op = "add_frame"
    /\ ~ok
    /\ queue # <<>>
    /\ last_frame_time < now

\* C30: no operation of the QueueManager suspends while it holds the lock, so
\* the lock is free between any two steps and add_frame never has to wait
\* for it: whatever producers and the worker have done so far, a call of
\* add_frame with a frame built at the current time runs to its return.
C30_NeverWaits == [](ENABLED add_frame(NewId(queue), now))

\* add_frame has just returned, with the deque full and the worker marked busy
C30_Witness ==
    /\ op = "add_frame"
    /\ ~ok
    /\ Len(queue) = max_size
    /\ max_size >= 2
    /\ processing_active

\* ------------------------------------------------------------- claims: event streams
\* the outbox takes one more event: it has no bound, or is below its bound
HasRoom(q) == q.maxsize = 0 \/ Len(q.items) < q.maxsize

\* C21: broadcast appends the event to the outbox of every registered client
\* whose outbox has room and removes from the registry exactly the clients
\* whose outbox is full; the full outbox of one client keeps the event from
\* no other client, and nothing is raised to the caller.
C21_BroadcastDelivers ==
    [][sse_op' = "broadcast" =>
         /\ sse_ret' = "None"
         /\ \A c \in ClientIds :
              /\ (c \in connections /\ HasRoom(outbox[c])) =>
                     /\ c \in connections'
                     /\ outbox'[c].items =
                            Append(outbox[c].items, Event("ai_analysis", sse_arg'))
              /\ (c \in connections /\ ~HasRoom(outbox[c])) =>
                     /\ c \notin connections'
                     /\ outbox'[c] = outbox[c]
              /\ c \notin connections =>
                     /\ c \notin connections'
                     /\ outbox'[c] = outbox[c]]_vars

\* a broadcast found one client full, unregistered it, and reached another
C21_Witness ==
    /\ sse_op = "broadcast"
    /\ \E a, b \in ClientIds :
         /\ a \notin connections
         /\ outbox[a].maxsize >= 1
         /\ Len(outbox[a].items) = outbox[a].maxsize
         /\ \A i \in 1..Len(outbox[a].items) : outbox[a].items[i].data < sse_arg
         /\ b \in connections
         /\ outbox[b].items # <<>>
         /\ outbox[b].items[Len(outbox[b].items)] = Event("ai_analysis", sse_arg)

\* C22: disconnect(id) removes id from the registry when it is registered and
\* touches no other registration; on an id that is not registered, never
\* registered or disconnected before, it raises nothing and leaves the set
\* of connections and their count as they were.
C22_DisconnectIdempotent ==
    [][sse_op' = "disconnect" =>
         /\ sse_ret' = "None"
         /\ connections' = connections \ {sse_arg'}
         /\ outbox' = outbox
         /\ sse_arg' \notin connections =>
                /\ connections' = connections
                /\ Cardinality(connections') = Cardinality(connections)]_vars

\* disconnect was called for a client that was registered once and is not
\* registered any more, while another client is
C22_Witness ==
    /\ sse_op = "disconnect"
    /\ sse_ret = "None"
    /\ outbox[sse_arg] # NoQueue
    /\ sse_arg \notin connections
    /\ connections # {}

\* C23: send_to_client(id) returns True and appends the event to the outbox
\* of id alone when id is registered and its outbox has room; it returns
\* False and changes nothing when id is not registered; it returns False
\* and unregisters id when its outbox is full.
C23_SendToClient ==
    [][sse_op' = "send_to_client" =>
         LET id == sse_arg'
         IN  /\ \A c \in ClientIds \ {id} :
                   outbox'[c] = outbox[c] /\ (c \in connections' <=> c \in connections)
             /\ (id \in connections /\ HasRoom(outbox[id])) =>
                    /\ sse_ret' = "True"
                    /\ id \in connections'
                    /\ outbox'[id].items =
                           Append(outbox[id].items, Event("ai_analysis", sent'))
             /\ id \notin connections =>
                    /\ sse_ret' = "False"
                    /\ connections' = connections
                    /\ outbox' = outbox
             /\ (id \in connections /\ ~HasRoom(outbox[id])) =>
                    /\ sse_ret' = "False"
                    /\ id \notin connections'
                    /\ outbox' = outbox]_vars

\* an event was sent to one of two registered clients: the other outbox is
\* empty still
C23_Witness ==
    /\ sse_op = "send_to_client"
    /\ sse_ret = "True"
    /\ Cardinality(connections) >= 2
    /\ outbox[sse_arg].items # <<>>
    /\ \E c \in connections \ {sse_arg} : outbox[c].items = <<>>

\* C24: every outbox that connect() creates has a finite capacity that its
\* length never exceeds, so a client that stops draining is unregistered
\* once its outbox is full while broadcasts go on.
C24_BoundedOutbox ==
    \A c \in ClientIds :
        stream[c] # "none" =>
            /\ outbox[c].maxsize > 0
            /\ Len(outbox[c].items) <= outbox[c].maxsize

\* C25: the stream of every subscriber begins with exactly one connected
\* event that carries its client id, ahead of every broadcast event, those
\* broadcast between its registration and the start of its stream included.
C25_ConnectedFirst ==
    \A c \in ClientIds :
        /\ stream[c] \in {"loop", "closed"} => delivered[c] # <<>>
        /\ stream[c] \in {"none", "created"} => delivered[c] = <<>>
        /\ delivered[c] # <<>> =>
               /\ delivered[c][1] = [event |-> "connected", data |-> c]
               /\ \A i \in 2..Len(delivered[c]) : delivered[c][i].event # "connected"

\* the stream started when an event was in the outbox already
C25_Witness ==
    /\ sse_op = "start_stream"
    /\ delivered[sse_arg] = <<[event |-> "connected", data |-> sse_arg]>>
    /\ outbox[sse_arg].items # <<>>

\* the stream of the client is in its loop, the client is there and no event
\* is in its outbox
Waiting(c) == stream[c] = "loop" /\ ~gone[c] /\ outbox[c].items = <<>>

\* the heartbeats the client got since the last other event: none, an odd
\* number, an even number
Beat(c) ==
    LET log == delivered[c]
    IN  IF log # <<>> /\ log[Len(log)].event = "heartbeat"
        THEN 1 + log[Len(log)].data ELSE 0

\* C26: a round of the loop that finds the client there and its outbox
\* empty yields a heartbeat and nothing else, and leaves the client
\* registered as it was and its stream in the loop; while the outbox stays
\* empty and the client stays, one more heartbeat always follows.
C26_Heartbeats ==
    /\ [][\A c \in ClientIds :
            (Waiting(c) /\ sse_arg' = c /\ sse_op' \in {"yield", "heartbeat", "stream_closed"}) =>
                /\ sse_op' = "heartbeat"
                /\ delivered'[c][Len(delivered'[c])].event = "heartbeat"
                /\ Beat(c)' # Beat(c)
                /\ connections' = connections
                /\ stream'[c] = "loop"
                /\ outbox' = outbox]_vars
    /\ \A c \in ClientIds : \A b \in 0..2 :
           (Waiting(c) /\ Beat(c) = b) ~> (~Waiting(c) \/ Beat(c) # b)

\* the second heartbeat in a row reached a client that is registered still
C26_Witness ==
    /\ sse_op = "heartbeat"
    /\ sse_arg \in connections
    /\ Waiting(sse_arg)
    /\ delivered[sse_arg] =
           <<[event |-> "connected", data |-> sse_arg], [event |-> "heartbeat", data |-> 1]>>

\* ------------------------------------------------------------- claims: main.py
\* C27: whatever connects, disconnects or ends its stream around a
\* broadcast, the registry is never changed while the broadcast iterates over
\* it: no call is ever left suspended inside its iteration, so every change
\* of the registry falls between two broadcasts and no iteration finds the
\* dict resized.
C27_RegistryStable ==
    /\ ~dict_changed
    /\ ~sender.active

\* results went to two connections, a third call found one of them closed
\* in between
C27_Witness ==
    /\ results >= 2
    /\ \E a, b \in ConnectionIds :
         /\ generator[a] = "closed"
         /\ Len(connection_queue[a].items) = 1
         /\ generator[b] = "open"
         /\ Len(connection_queue[b].items) >= 2

\* C28: after any interleaving of concurrent create_motion_event requests
\* every request has appended its event and the stored events have pairwise
\* distinct ids.
C28_DistinctIds ==
    (\A r \in ThreadIds : thread[r].pc # "read") =>
        /\ Len(dummy_motion_events) =
               Len(InitialEvents) + Cardinality({ r \in ThreadIds : thread[r].pc = "done" })
        /\ \A i, j \in 1..Len(dummy_motion_events) :
               i # j => dummy_motion_events[i] # dummy_motion_events[j]

\* ------------------------------------------------------------- claims: pending frames
\* C31: a pending frame keeps its priority for as long as it stays pending,
\* whatever is called meanwhile, add_frame with the same object included.
C31_PriorityStable ==
    [][\A f \in Pending(queue) :
           f \in Pending(queue') => frames'[f].priority = frames[f].priority]_vars

\* C32: get_queue_status changes nothing of the queue and never waits, for
\* the lock or for anything else; is_dropping is true exactly when
\* drop_threshold frames or more are pending, and drop_rate is the rate
\* add_frame applies in the same state: its drop_rate from the threshold on,
\* none below it.
C32_Status ==
    /\ [](ENABLED get_queue_status)
    /\ [][op' = "get_queue_status" =>
             /\ UNCHANGED <<max_size, drop_threshold, queue, frames, last_frame_time,
                            processing_active, lock, now>>
             /\ status'.queue_size = Len(queue)
             /\ status'.is_dropping = (Len(queue) >= drop_threshold)
             /\ LET rate == IF Len(queue) >= drop_threshold
                            THEN drop_rate(Len(queue), drop_threshold)
                            ELSE <<0, 1>>
                IN  status'.drop_rate[1] * rate[2] = rate[1] * status'.drop_rate[2]]_vars

\* get_queue_status has just reported the clamped rate 0.8, with frames
\* pending between two add_frame calls
C32_Witness ==
    /\ op = "get_queue_status"
    /\ status.is_dropping
    /\ status.drop_rate = <<4, 5>>
    /\ 5 * (Len(queue) - drop_threshold) > 4 * drop_threshold
    /\ processing_active

\* C34: a frame get_frame returns was accepted by add_frame before and is
\* pending no longer, so that it is returned once; a rejected frame does not
\* get into the deque, and a frame the deque evicted or clear_old_frames
\* pruned is not pending afterwards, so that it is never returned.
C34_ReturnedOnce ==
    [][/\ (op' = "get_frame" /\ ret'.id # None) =>
             /\ ret'.id \in Pending(queue)
             /\ frames[ret'.id].admitted > 0
             /\ ret'.id \notin Pending(queue')
       /\ (op' = "add_frame" /\ ~ok') => queue' = queue
       /\ (op' = "add_frame" /\ ok' /\ Len(queue) = max_size) =>
             Head(queue) \notin Pending(queue')
       /\ op' = "clear_old_frames" =>
             \A f \in Pending(queue) :
                 now - frames[f].timestamp > arg' => f \notin Pending(queue')]_vars

\* ------------------------------------------------------------- claims: stream lifecycle
\* C35: a client that connect registered and whose transport has gone is
\* eventually out of the registry, also when it went before its stream
\* yielded its first event.
C35_Unregistered ==
    \A c \in ClientIds : (c \in connections /\ gone[c]) ~> (c \notin connections)

\* the numbers of the ai_analysis events of a sequence of events, in order
RECURSIVE Numbers(_)
Numbers(events) ==
    IF events = <<>>
    THEN <<>>
    ELSE IF Head(events).event = "ai_analysis"
         THEN <<Head(events).data>> \o Numbers(Tail(events))
         ELSE Numbers(Tail(events))

\* C36: what a client's stream yields is its connected event, then the
\* events enqueued for it, in the order of their enqueuing (events are
\* numbered as they are enqueued) and each once, with nothing but heartbeats
\* in between: a yield hands over the oldest event of the outbox and takes it
\* out, an event enqueued while the client is not registered never shows,
\* and while the client stays every event of its outbox is yielded in the end.
C36_InOrderOnce ==
    /\ [](\A c \in ClientIds :
            LET numbers == Numbers(delivered[c]) \o Numbers(outbox[c].items)
            IN  /\ \A i, j \in 1..Len(numbers) : i < j => numbers[i] < numbers[j]
                /\ \A i \in 1..Len(delivered[c]) :
                       delivered[c][i].event =
                           IF i = 1 THEN "connected"
                           ELSE IF i = Len(delivered[c]) /\ delivered[c][i].event = "heartbeat"
                                THEN "heartbeat" ELSE "ai_analysis")
    /\ [][/\ sse_op' = "yield" =>
               /\ outbox[sse_arg'].items # <<>>
               /\ delivered'[sse_arg'][Len(delivered'[sse_arg'])] = Head(outbox[sse_arg'].items)
               /\ outbox'[sse_arg'].items = Tail(outbox[sse_arg'].items)
         /\ \A c \in ClientIds :
               (sse_op' \in {"broadcast", "send_to_client"} /\ c \notin connections)
                   => outbox'[c] = outbox[c]]_vars
    /\ \A c \in ClientIds : \A n \in 1..MaxEvents :
          (\E i \in 1..Len(outbox[c].items) : outbox[c].items[i].data = n)
              ~> (gone[c] \/ \E i \in 1..Len(delivered[c]) :
                                  delivered[c][i] = Event("ai_analysis", n))

\* a stream has yielded a broadcast event, then a heartbeat, and has the
\* event sent to its client alone still in its outbox
C36_Witness ==
    \E c \in ClientIds :
        /\ Len(delivered[c]) = 3
        /\ delivered[c][2] = Event("ai_analysis", 1)
        /\ delivered[c][3].event = "heartbeat"
        /\ outbox[c].items = <<Event("ai_analysis", 2)>>
        /\ sse_op = "send_to_client"
        /\ sse_ret = "True"

\* ------------------------------------------------------------- claims: server.py
\* C33: every analysis analyze_image completes, whether it succeeded or
\* failed, is put as one ai_analysis event into the outbox of every
\* registered client.
C33_AllPublished ==
    [][sse_op' = "analyze_image" =>
         \A c \in connections :
             outbox'[c].items = Append(outbox[c].items, Event("ai_analysis", sse_arg'))]_vars

\* ------------------------------------------------------------- claims: graph.py
\* C37: whatever the interleaving of concurrent analyze_with_graph requests,
\* the processing count of the LoadBalancer is at least 0 and at most
\* max_concurrent.
C37_CountBounded ==
    /\ processing_count >= 0
    /\ processing_count <= max_concurrent

\* ------------------------------------------------------------- claims: polling
\* the frame ids a list names
Named(frame_ids) == { frame_ids[i] : i \in 1..Len(frame_ids) }

\* C38: a poll_analysis_results call that names the frame id of a stored
\* completed result returns that result, once, and takes it out of the store,
\* so that no result is ever returned by two calls; a call that does not name
\* the frame id leaves the result stored; a frame stored as processing is
\* reported as pending and stays stored.
C38_ReturnedByOnePoll ==
    /\ [](\A n \in Submissions : poll_returned[n] <= 1)
    /\ [][poll'.called =>
             \A f \in PollFrames :
                 /\ (f \in Named(poll'.frame_ids) /\ polling_results[f].status = "completed") =>
                         /\ Count(poll'.completed, polling_results[f].analysis) = 1
                         /\ polling_results'[f] = NoEntry
                 /\ (f \notin Named(poll'.frame_ids) /\ polling_results[f].status = "completed") =>
                         /\ Count(poll'.completed, polling_results[f].analysis) = 0
                         /\ polling_results'[f] = polling_results[f]
                 /\ polling_results[f].status = "processing" =>
                         /\ f \in Named(poll'.frame_ids) => Count(poll'.pending, f) >= 1
                         /\ polling_results'[f] = polling_results[f]]_vars

\* a poll has just returned the completed result of one frame and reported
\* another frame, still processing, as pending
C38_Witness ==
    /\ poll.called
    /\ Len(poll.completed) = 1
    /\ Len(poll.pending) = 1
    /\ \E f \in PollFrames : polling_results[f] = Processing
    /\ \E n \in Submissions : poll_returned[n] = 1

\* the frame ids of the analysis_data dicts of a completed list
CompletedFrames(completed) == { later[completed[i]].frame_id : i \in 1..Len(completed) }

\* C39: in the response of a poll_analysis_results call every frame id of the
\* request is in exactly one of the lists completed, failed and pending.
C39_ExactlyOneList ==
    [][poll'.called =>
         \A f \in Named(poll'.frame_ids) :
             Cardinality({ k \in {"completed", "failed", "pending"} :
                 \/ k = "completed" /\ f \in CompletedFrames(poll'.completed)
                 \/ k = "failed" /\ f \in Named(poll'.failed)
                 \/ k = "pending" /\ f \in Named(poll'.pending) }) = 1]_vars

====
